---------------------------- MODULE Spec2Model ----------------------------
(***************************************************************************)
(* A model of sc.ScriptBuilder (sc/scriptBuilder.go): the byte buffer and  *)
(* the error list of a builder, and the encode operations that append to   *)
(* them.  Arbitrary-precision integers are kept the way math/big keeps     *)
(* them, as a sign and a big-endian magnitude, and every encoding is       *)
(* computed on byte sequences, so that values of up to 33 bytes are        *)
(* covered without leaving the integer range of the model checker.         *)
(***************************************************************************)
EXTENDS Integers, Sequences, FiniteSets, TLC

VARIABLES
    buff,      \* sb.buff: the bytes written so far
    errs,      \* sb.errs: the recorded error messages, in recording order
    crashed,   \* a call on the builder panicked
    log,       \* the calls made on the builder since NewScriptBuilder
    pre,       \* buff and errs as they were before the latest call
    rets       \* what ToArray returned, oldest first

vars == <<buff, errs, crashed, log, pre, rets>>

(***************************************************************************)
(* Bounds of the model.                                                    *)
(***************************************************************************)
MaxCalls    == 3    \* encode calls on one builder in a session
MaxRets     == 2    \* ToArray calls in a session
MaxMagLen   == 33   \* bytes of magnitude of a big.Int input
MaxListLen  == 3    \* elements of a CreateArray list

(***************************************************************************)
(* OpCode values (sc/OpCode.go, the NeoVM instruction set).                *)
(***************************************************************************)
PUSHINT8   == 0
PUSHINT16  == 1
PUSHINT32  == 2
PUSHINT64  == 3
PUSHINT128 == 4
PUSHINT256 == 5
PUSHNULL   == 11
PUSHDATA1  == 12
PUSHDATA2  == 13
PUSHDATA4  == 14
PUSH0      == 16
PUSH1      == 17
NOP        == 33
JMP        == 34
JMPLE_L    == 51
CALL       == 52
CALL_L     == 53
SYSCALL    == 65
DUP        == 74
PACK       == 192
NEWARRAY0  == 194
NEWMAP     == 200
SETITEM    == 208

Byte == 0..255

\* OpCode is a byte: arithmetic on it wraps.
OpCode(n) == n % 256

(***************************************************************************)
(* Byte-sequence helpers.                                                  *)
(***************************************************************************)
Fill(n, b) == [i \in 1..n |-> b]

\* helper.ReverseBytes
ReverseBytes(s) == [i \in 1..Len(s) |-> s[Len(s) + 1 - i]]

\* The magnitude of big.Int carries no leading zero byte.
RECURSIVE StripLeadingZeros(_)
StripLeadingZeros(s) ==
    IF s = <<>> THEN <<>>
    ELSE IF s[1] = 0 THEN StripLeadingZeros(Tail(s))
    ELSE s

\* Every byte complemented.
Complement(s) == [i \in 1..Len(s) |-> 255 - s[i]]

\* One added to a little-endian byte sequence, the carry out of the top dropped.
RECURSIVE AddOne(_)
AddOne(s) ==
    IF s = <<>> THEN <<>>
    ELSE IF s[1] = 255 THEN <<0>> \o AddOne(Tail(s))
    ELSE <<s[1] + 1>> \o Tail(s)

\* Two's-complement negation of a little-endian byte sequence of fixed width.
Negate(s) == AddOne(Complement(s))

\* helper.BigIntToNeoBytes: the minimal two's-complement little-endian bytes of
\* a big.Int.  big.Int.Bytes() is the big-endian magnitude; it is reversed, a
\* negative value is negated in place, and a sign byte is added when the top
\* bit of the top byte does not already give the sign.
BigIntToNeoBytes(x) ==
    IF x.mag = <<>> THEN <<>>
    ELSE LET le == ReverseBytes(x.mag)
         IN  IF x.neg
             THEN LET t == Negate(le)
                  IN  IF t[Len(t)] < 128 THEN Append(t, 255) ELSE t
             ELSE IF le[Len(le)] >= 128 THEN Append(le, 0) ELSE le

\* helper.PadRight(data, length): cut to length, or filled with zero bytes on
\* the right up to length.
PadRight(data, n) ==
    IF Len(data) >= n THEN SubSeq(data, 1, n)
    ELSE data \o Fill(n - Len(data), 0)

\* The low `w` bytes, little-endian, of the two's complement of integer n.
LEBytes(n, w) ==
    IF n >= 0
    THEN [i \in 1..w |-> IF i > 4 THEN 0 ELSE (n \div (256 ^ (i - 1))) % 256]
    ELSE LET m == -(n + 1)
         IN  [i \in 1..w |->
                 IF i > 4 THEN 255 ELSE 255 - ((m \div (256 ^ (i - 1))) % 256)]

\* helper.IntToBytes: uint32(n), little-endian.
IntToBytes(n) == LEBytes(n, 4)

\* helper.UInt16ToBytes, helper.UInt32ToBytes: little-endian.
UInt16ToBytes(n) == LEBytes(n, 2)
UInt32ToBytes(n) == LEBytes(n, 4)


(***************************************************************************)
(* Go values.  An interface{} value is a record: k names its dynamic type, *)
(* isNil says a slice, map or pointer is nil, neg and b hold a big.Int's   *)
(* sign and big-endian magnitude, b alone holds the bytes of a []byte or a *)
(* string, the little-endian bytes of a fixed-width integer at its width,  *)
(* the byte of a bool or the serialized form of an ISerializable; tag is   *)
(* the Type of a ContractParameter and items its Value (no item: Value is  *)
(* nil), the elements of a slice, the entries of a map or the key and the  *)
(* value of an entry.                                                      *)
(***************************************************************************)
Obj(k, isNil, neg, b, tag, items) ==
    [k |-> k, isNil |-> isNil, neg |-> neg, b |-> b, tag |-> tag, items |-> items]

NoObj          == Obj("none", FALSE, FALSE, <<>>, "", <<>>)
BoolObj(v)     == Obj("bool", FALSE, FALSE, <<IF v THEN 1 ELSE 0>>, "", <<>>)
BytesObj(b)    == Obj("[]byte", FALSE, FALSE, b, "", <<>>)
NilBytes       == Obj("[]byte", TRUE, FALSE, <<>>, "", <<>>)
StringObj(b)   == Obj("string", FALSE, FALSE, b, "", <<>>)
BigInt(neg, mag)    == Obj("big.Int", FALSE, neg, mag, "", <<>>)
BigIntPtr(neg, mag) == Obj("*big.Int", FALSE, neg, mag, "", <<>>)
IntObj(k, b)   == Obj(k, FALSE, FALSE, b, "", <<>>)
CallFlagsObj(v) == Obj("CallFlags", FALSE, FALSE, <<v>>, "", <<>>)
NilMarker      == Obj("types.Nil", FALSE, FALSE, <<>>, "", <<>>)
FloatObj       == Obj("float64", FALSE, FALSE, <<>>, "", <<>>)
UInt160Obj(b)  == Obj("*helper.UInt160", FALSE, FALSE, b, "", <<>>)
UInt256Obj(b)  == Obj("*helper.UInt256", FALSE, FALSE, b, "", <<>>)
Param(tag, v)  == Obj("ContractParameter", FALSE, FALSE, <<>>, tag, <<v>>)
NilParam(tag)  == Obj("ContractParameter", FALSE, FALSE, <<>>, tag, <<>>)
ParamSlice(ps) == Obj("[]ContractParameter", FALSE, FALSE, <<>>, "", ps)
List(xs)       == Obj("[]interface{}", FALSE, FALSE, <<>>, "", xs)
NilList        == Obj("[]interface{}", TRUE, FALSE, <<>>, "", <<>>)
Pair(key, v)   == Obj("entry", FALSE, FALSE, <<>>, "", <<key, v>>)
MapObj(es)     == Obj("map[interface{}]interface{}", FALSE, FALSE, <<>>, "", es)
NilMap         == Obj("map[interface{}]interface{}", TRUE, FALSE, <<>>, "", <<>>)

SignedKinds   == {"int8", "int16", "int32", "int64", "int"}
UnsignedKinds == {"uint8", "uint16", "uint32", "uint64", "uint"}
IntKinds      == SignedKinds \cup UnsignedKinds
SerializableKinds == {"*helper.UInt160", "*helper.UInt256"}

\* Width in bytes of a fixed-width integer type (int and uint are 64-bit).
WidthOf(k) ==
    CASE k \in {"int8", "uint8"}   -> 1
      [] k \in {"int16", "uint16"} -> 2
      [] k \in {"int32", "uint32"} -> 4
      [] OTHER                     -> 8

\* The Go conversion int64(v) of a fixed-width integer, as 8 little-endian
\* bytes: a signed type is sign-extended, an unsigned one zero-extended, and
\* the 64 bits of a uint64 or uint are kept as they are.
ToInt64(num) ==
    LET w   == Len(num.b)
        ext == IF num.k \in SignedKinds /\ num.b[w] >= 128 THEN 255 ELSE 0
    IN  num.b \o Fill(8 - w, ext)

\* big.NewInt(x) of an int64 given as 8 little-endian bytes.
NewInt(b8) ==
    IF b8[8] >= 128
    THEN BigInt(TRUE, StripLeadingZeros(ReverseBytes(Negate(b8))))
    ELSE BigInt(FALSE, StripLeadingZeros(ReverseBytes(b8)))

\* number.Cmp(big.NewInt(-1)) >= 0 && number.Cmp(big.NewInt(16)) <= 0
InSmallRange(number) ==
    \/ number.b = <<>>
    \/ /\ Len(number.b) = 1
       /\ IF number.neg THEN number.b[1] = 1 ELSE number.b[1] <= 16

\* byte(number.Int64()) for a number of at most one byte of magnitude.
LowByte(number) ==
    IF number.b = <<>> THEN 0
    ELSE IF number.neg THEN 256 - number.b[1] ELSE number.b[1]

(***************************************************************************)
(* The builder.  A builder value is [buff, errs, panic]; panic says a call *)
(* has panicked, and what is left of that call is skipped.                 *)
(***************************************************************************)
\* A text is a sequence of tokens: a run of characters without '%', or a
\* formatting verb ("%v", "%d", "%s", "%%").  The text of an error is its
\* message; the nil error is the empty sequence (no error recorded here has
\* an empty message).
NilError == <<>>

\* fmt.Errorf(format) without operands: a verb has no operand to format and
\* is written as %!verb(MISSING), "%%" is written as "%", the rest is copied.
Errorf(format) ==
    [i \in 1..Len(format) |->
        CASE format[i] = "%v" -> "%!v(MISSING)"
          [] format[i] = "%d" -> "%!d(MISSING)"
          [] format[i] = "%s" -> "%!s(MISSING)"
          [] format[i] = "%%" -> "%"
          [] OTHER            -> format[i]]

ErrInvalidOpCode == Errorf(<<"argument out of range: invalid OpCode">>)
ErrNumber        == Errorf(<<"argument out of range: number">>)
ErrNotInteger    == Errorf(<<"param is not of integer type">>)
ErrDataEmpty     == Errorf(<<"data is empty">>)
ErrParamType     == Errorf(<<"invalid param type">>)
ErrArgumentType  == Errorf(<<"invalid argument type">>)
ErrSerialize     == <<"serialize failed">>

NewScriptBuilder == [buff |-> <<>>, errs |-> <<>>, panic |-> FALSE]

Panic(sb) == [sb EXCEPT !.panic = TRUE]

addError(sb, err) ==
    IF sb.panic \/ err = NilError THEN sb
    ELSE [sb EXCEPT !.errs = Append(@, err)]

\* bytes.Buffer.WriteByte and Write: the bytes are appended and the error
\* returned is always nil.
BufWrite(sb, bytes) ==
    IF sb.panic THEN sb ELSE [sb EXCEPT !.buff = @ \o bytes]

Emit(sb, op, arg) ==
    LET s1 == addError(BufWrite(sb, <<op>>), NilError)
    IN  IF arg # <<>> THEN addError(BufWrite(s1, arg), NilError) ELSE s1

EmitCall(sb, offset) ==
    IF offset < -128 \/ offset > 127
    THEN Emit(sb, CALL_L, IntToBytes(offset))
    ELSE Emit(sb, CALL, <<offset % 256>>)

\* EmitJump without the promotion of a short form to its long form.
EmitJumpNoPromotion(sb, op, offset) ==
    LET s1 == IF op < JMP \/ op > JMPLE_L
              THEN addError(sb, ErrInvalidOpCode) ELSE sb
    IN  IF op % 2 = 0
        THEN Emit(s1, op, <<offset % 256>>)
        ELSE Emit(s1, op, IntToBytes(offset))

EmitJump(sb, op, offset) ==
    LET s1  == IF op < JMP \/ op > JMPLE_L
               THEN addError(sb, ErrInvalidOpCode) ELSE sb
        op1 == IF op % 2 = 0 /\ (offset < -128 \/ offset > 127)
               THEN OpCode(op + 1) ELSE op
    IN  IF op1 % 2 = 0
        THEN Emit(s1, op1, <<offset % 256>>)
        ELSE Emit(s1, op1, IntToBytes(offset))

EmitPushBigInt(sb, number) ==
    IF InSmallRange(number)
    THEN Emit(sb, OpCode(PUSH0 + LowByte(number)), <<>>)
    ELSE LET data == BigIntToNeoBytes([neg |-> number.neg, mag |-> number.b])
         IN  IF Len(data) = 1 THEN Emit(sb, PUSHINT8, data)
             ELSE IF Len(data) = 2 THEN Emit(sb, PUSHINT16, data)
             ELSE IF Len(data) <= 4 THEN Emit(sb, PUSHINT32, PadRight(data, 4))
             ELSE IF Len(data) <= 8 THEN Emit(sb, PUSHINT64, PadRight(data, 8))
             ELSE IF Len(data) <= 16 THEN Emit(sb, PUSHINT128, PadRight(data, 16))
             ELSE IF Len(data) <= 32 THEN Emit(sb, PUSHINT256, PadRight(data, 32))
             ELSE addError(sb, ErrNumber)

EmitPushInteger(sb, num) ==
    IF num.k \in IntKinds
    THEN EmitPushBigInt(sb, NewInt(ToInt64(num)))
    ELSE addError(sb, ErrNotInteger)

EmitPushBool(sb, data) ==
    IF data THEN Emit(sb, PUSH1, <<>>) ELSE Emit(sb, PUSH0, <<>>)

\* EmitPushBytes with the first threshold off by one (l <= 0x100).
EmitPushBytesOffByOne(sb, data) ==
    IF data.isNil THEN addError(sb, ErrDataEmpty)
    ELSE LET l == Len(data.b)
         IN  IF l <= 256
             THEN BufWrite(BufWrite(Emit(sb, PUSHDATA1, <<>>), <<l % 256>>), data.b)
             ELSE IF l < 65536
             THEN BufWrite(BufWrite(Emit(sb, PUSHDATA2, <<>>), UInt16ToBytes(l)), data.b)
             ELSE BufWrite(BufWrite(Emit(sb, PUSHDATA4, <<>>), UInt32ToBytes(l)), data.b)

EmitPushBytes(sb, data) ==
    IF data.isNil THEN addError(sb, ErrDataEmpty)
    ELSE LET l == Len(data.b)
         IN  IF l < 256
             THEN BufWrite(BufWrite(Emit(sb, PUSHDATA1, <<>>), <<l % 256>>), data.b)
             ELSE IF l < 65536
             THEN BufWrite(BufWrite(Emit(sb, PUSHDATA2, <<>>), UInt16ToBytes(l)), data.b)
             ELSE BufWrite(BufWrite(Emit(sb, PUSHDATA4, <<>>), UInt32ToBytes(l)), data.b)

\* []byte(data): a slice that is not nil, holding the string's bytes.
StringToBytes(data) == BytesObj(data.b)

EmitPushString(sb, data) == EmitPushBytes(sb, StringToBytes(data))

EmitRaw(sb, arg) == IF ~arg.isNil THEN BufWrite(sb, arg.b) ELSE sb

EmitSysCall(sb, api) == Emit(sb, SYSCALL, UInt32ToBytes(api))

\* io.ToArray: the serialized bytes and a nil error; a serializer that fails
\* gives nil bytes and its error.
IoToArray(data) ==
    IF data.isNil
    THEN [b |-> NilBytes, e |-> ErrSerialize]
    ELSE [b |-> BytesObj(data.b), e |-> NilError]

EmitPushSerializable(sb, data) ==
    LET r == IoToArray(data)
    IN  EmitPushBytes(addError(sb, r.e), r.b)

(***************************************************************************)
(* The encoders of composite values.  Go ranges over a map in an order it  *)
(* does not fix: `ord` is the order one range takes, a permutation of the  *)
(* indices of the map's entries.  The inputs of the model hold at most one *)
(* map per call, so that one order per call says all there is to choose.   *)
(***************************************************************************)
\* len(x) as a Go int.
LenAsInt(n) == IntObj("int", LEBytes(n, 8))

RECURSIVE EmitPushObject(_, _, _)
RECURSIVE EmitPushParameter(_, _, _)
RECURSIVE PushObjectsDown(_, _, _, _)
RECURSIVE PushParametersDown(_, _, _, _)
RECURSIVE SetItems(_, _, _, _)

\* for i := i; i >= 1; i-- { sb.EmitPushObject(list[i]) }
PushObjectsDown(sb, list, i, ord) ==
    IF i < 1 THEN sb
    ELSE PushObjectsDown(EmitPushObject(sb, list[i], ord), list, i - 1, ord)

\* for i := i; i >= 1; i-- { sb.EmitPushParameter(a[i]) }
PushParametersDown(sb, a, i, ord) ==
    IF i < 1 THEN sb
    ELSE PushParametersDown(EmitPushParameter(sb, a[i], ord), a, i - 1, ord)

\* CreateArray pushing the elements first to last.
RECURSIVE PushObjectsUp(_, _, _, _)
PushObjectsUp(sb, list, i, ord) ==
    IF i > Len(list) THEN sb
    ELSE PushObjectsUp(EmitPushObject(sb, list[i], ord), list, i + 1, ord)

CreateArrayForward(sb, list, ord) ==
    IF list.isNil \/ Len(list.items) = 0
    THEN Emit(sb, NEWARRAY0, <<>>)
    ELSE Emit(EmitPushInteger(PushObjectsUp(sb, list.items, 1, ord),
                              LenAsInt(Len(list.items))),
              PACK, <<>>)

CreateArray(sb, list, ord) ==
    IF list.isNil \/ Len(list.items) = 0
    THEN Emit(sb, NEWARRAY0, <<>>)
    ELSE Emit(EmitPushInteger(PushObjectsDown(sb, list.items, Len(list.items), ord),
                              LenAsInt(Len(list.items))),
              PACK, <<>>)

\* for k, v := range m { DUP; push k; push v; SETITEM }, from the j-th entry
\* of the order the range takes.
SetItems(sb, entries, ord, j) ==
    IF j > Len(ord) THEN sb
    ELSE LET e  == entries[ord[j]]
             s1 == Emit(sb, DUP, <<>>)
             s2 == EmitPushObject(s1, e.items[1], ord)
             s3 == EmitPushObject(s2, e.items[2], ord)
         IN  SetItems(Emit(s3, SETITEM, <<>>), entries, ord, j + 1)

CreateMap(sb, m, ord) ==
    LET s1 == Emit(sb, NEWMAP, <<>>)
    IN  IF ~m.isNil THEN SetItems(s1, m.items, ord, 1) ELSE s1

\* A type assertion v.(T) with one result panics when v does not hold a T.
Holds(v, kinds) == v.k \in kinds

EmitPushParameter(sb, param, ord) ==
    IF sb.panic THEN sb
    ELSE IF param.items = <<>> THEN Emit(sb, PUSHNULL, <<>>)
    ELSE LET v == param.items[1]
         IN  CASE param.tag \in {"Signature", "ByteArray", "PublicKey"} ->
                    IF Holds(v, {"[]byte"}) THEN EmitPushBytes(sb, v) ELSE Panic(sb)
               [] param.tag = "Boolean" ->
                    IF Holds(v, {"bool"}) THEN EmitPushBool(sb, v.b = <<1>>) ELSE Panic(sb)
               [] param.tag = "Integer" -> EmitPushObject(sb, v, ord)
               [] param.tag = "Hash160" ->
                    IF Holds(v, {"*helper.UInt160"})
                    THEN EmitPushSerializable(sb, v) ELSE Panic(sb)
               [] param.tag = "Hash256" ->
                    IF Holds(v, {"*helper.UInt256"})
                    THEN EmitPushSerializable(sb, v) ELSE Panic(sb)
               [] param.tag = "String" ->
                    IF Holds(v, {"string"}) THEN EmitPushString(sb, v) ELSE Panic(sb)
               [] param.tag = "Array" ->
                    IF Holds(v, {"[]ContractParameter"})
                    THEN Emit(EmitPushInteger(
                                  PushParametersDown(sb, v.items, Len(v.items), ord),
                                  LenAsInt(Len(v.items))),
                              PACK, <<>>)
                    ELSE Panic(sb)
               [] param.tag = "Map" ->
                    IF Holds(v, {"map[interface{}]interface{}"})
                    THEN CreateMap(sb, v, ord) ELSE Panic(sb)
               [] OTHER -> addError(sb, ErrParamType)

EmitPushObject(sb, obj, ord) ==
    IF sb.panic THEN sb
    ELSE CASE obj.k = "CallFlags" -> EmitPushBigInt(sb, NewInt(obj.b \o Fill(7, 0)))
           [] obj.k = "bool" -> EmitPushBool(sb, obj.b = <<1>>)
           [] obj.k = "[]byte" -> EmitPushBytes(sb, obj)
           [] obj.k = "string" -> EmitPushString(sb, obj)
           [] obj.k \in {"big.Int", "*big.Int"} -> EmitPushBigInt(sb, obj)
           [] obj.k \in SerializableKinds \cup {"ISerializable"} ->
                  EmitPushSerializable(sb, obj)
           [] obj.k \in IntKinds -> EmitPushInteger(sb, obj)
           [] obj.k = "ContractParameter" -> EmitPushParameter(sb, obj, ord)
           [] obj.k = "types.Nil" -> Emit(sb, PUSHNULL, <<>>)
           [] OTHER -> addError(sb, ErrArgumentType)

\* strings.Join(ss, sep): the first string, then sep and the next, in turn.
RECURSIVE JoinFrom(_, _, _, _)
JoinFrom(acc, ss, sep, i) ==
    IF i > Len(ss) THEN acc ELSE JoinFrom(acc \o sep \o ss[i], ss, sep, i + 1)

StringsJoin(ss, sep) == IF ss = <<>> THEN <<>> ELSE JoinFrom(ss[1], ss, sep, 2)

\* ToArray giving no bytes when an error was recorded.
ToArrayFailFast(sb) ==
    IF Len(sb.errs) = 0
    THEN [bytes |-> sb.buff, err |-> NilError]
    ELSE [bytes |-> <<>>, err |-> Errorf(StringsJoin(sb.errs, <<"\n">>))]

\* ToArray: the buffer's bytes, and nil or the error joining the messages.
ToArray(sb) ==
    IF Len(sb.errs) = 0
    THEN [bytes |-> sb.buff, err |-> NilError]
    ELSE [bytes |-> sb.buff, err |-> Errorf(StringsJoin(sb.errs, <<"\n">>))]

(***************************************************************************)
(* The inputs the model draws.                                             *)
(***************************************************************************)
\* The orders a range over a map of n entries can take.
Orders(n) == {f \in [1..n -> 1..n] : \A i, j \in 1..n : f[i] = f[j] => i = j}

\* The orders of the map a call ranges over: the map itself, or the map a
\* ContractParameter of Type Map holds.
OrdersFor(obj) ==
    IF obj.k = "map[interface{}]interface{}" THEN Orders(Len(obj.items))
    ELSE IF /\ obj.k = "ContractParameter" /\ obj.tag = "Map" /\ obj.items # <<>>
            /\ obj.items[1].k = "map[interface{}]interface{}"
    THEN Orders(Len(obj.items[1].items))
    ELSE {<<>>}

\* Magnitudes of big.Int inputs: every single byte, and longer ones made of a
\* top byte, a filling and a low byte.
MagTops  == {1, 127, 128, 255}
MagFills == {0, 128, 255}
MagLows  == {0, 1, 255}
Magnitudes ==
    {<<>>} \cup {<<t>> : t \in 1..255}
    \cup {<<t>> \o Fill(n - 2, f) \o <<l>> :
            <<n, t, f, l>> \in (2..MaxMagLen) \X MagTops \X MagFills \X MagLows}

BigInts ==
    {BigInt(FALSE, m) : m \in Magnitudes}
    \cup {BigInt(TRUE, m) : m \in Magnitudes \ {<<>>}}

\* Fixed-width integers of type k, as little-endian bytes at the type's width.
IntLows  == {0, 1, 16, 17, 255}
IntTops  == {0, 1, 127, 128, 255}
IntBytes(w) ==
    IF w = 1 THEN {<<b>> : b \in Byte}
    ELSE {<<l>> \o Fill(w - 2, f) \o <<t>> :
            <<l, f, t>> \in IntLows \X {0, 255} \X IntTops}
FixedInts == UNION {{IntObj(k, b) : b \in IntBytes(WidthOf(k))} : k \in IntKinds}

Hash160 == Fill(20, 171)
Hash256 == Fill(32, 205)
FailingSerializable == Obj("ISerializable", TRUE, FALSE, <<>>, "", <<>>)

\* Lengths of the byte strings pushed, around the thresholds of the length
\* prefix, and the byte they are filled with.
DataLens  == {0, 1, 2, 255, 256, 257, 300, 65535, 65536, 65537}
DataFills == {7, 255}
ByteStrings == {Fill(n, f) : <<n, f>> \in DataLens \X DataFills}

JumpOps == (JMP - 2)..(JMPLE_L + 2) \cup {0, 255}
Offsets == (-130)..130 \cup {-200, 200, -32768, 32767, 65536, 2147483647,
                             -2147483647 - 1}

\* Native values a list can hold.
Elements ==
    { BoolObj(TRUE), BytesObj(<<1, 2>>), StringObj(<<97>>), NilBytes,
      IntObj("int", LEBytes(300, 8)), BigIntPtr(TRUE, <<2>>), CallFlagsObj(15),
      NilMarker, UInt160Obj(Hash160), Param("Boolean", BoolObj(FALSE)) }

RECURSIVE SeqsUpTo(_, _)
SeqsUpTo(S, n) ==
    IF n = 0 THEN {<<>>}
    ELSE LET shorter == SeqsUpTo(S, n - 1)
         IN  shorter \cup {Append(q, x) : <<q, x>> \in shorter \X S}

Lists == {NilList} \cup {List(q) : q \in SeqsUpTo(Elements, MaxListLen)}

\* Maps of up to three entries, their entries listed by key.
MapKeys   == <<IntObj("int", LEBytes(1, 8)), IntObj("int", LEBytes(2, 8)),
               StringObj(<<107>>)>>
MapValues == {BoolObj(TRUE), BytesObj(<<1>>), StringObj(<<118>>)}

RECURSIVE EntriesOf(_, _, _)
EntriesOf(S, f, i) ==
    IF i > Len(MapKeys) THEN <<>>
    ELSE (IF i \in S THEN <<Pair(MapKeys[i], f[i])>> ELSE <<>>)
         \o EntriesOf(S, f, i + 1)

MapsOn(K) ==
    {NilMap} \cup
    {MapObj(EntriesOf(S, f, 1)) :
        <<S, f>> \in (SUBSET K) \X [1..Len(MapKeys) -> MapValues]}

Maps == MapsOn(1..Len(MapKeys))
SmallMaps == MapsOn({1, 2})

\* Values a ContractParameter can hold, and the Types it can declare.
ParamValues ==
    { BoolObj(TRUE), BytesObj(<<1, 2>>), NilBytes, StringObj(<<97>>), StringObj(<<>>),
      IntObj("int", LEBytes(300, 8)), IntObj("uint8", <<7>>), BigIntPtr(FALSE, <<1, 0>>),
      UInt160Obj(Hash160), UInt256Obj(Hash256), FloatObj,
      ParamSlice(<<>>),
      ParamSlice(<<Param("Integer", IntObj("int", LEBytes(1, 8))),
                   Param("String", StringObj(<<97>>))>>),
      ParamSlice(<<Param("Boolean", StringObj(<<97>>))>>),
      MapObj(<<Pair(MapKeys[1], BoolObj(TRUE)), Pair(MapKeys[3], StringObj(<<118>>))>>) }
ParamTypes ==
    { "Signature", "ByteArray", "Boolean", "Integer", "Hash160", "Hash256",
      "PublicKey", "String", "Array", "Map", "InteropInterface", "Any" }
Params ==
    {NilParam(t) : t \in ParamTypes}
    \cup {Param(t, v) : <<t, v>> \in ParamTypes \X ParamValues}

\* Native values pushed by type.
Objects ==
    Elements \cup FixedInts
    \cup { FloatObj, BoolObj(FALSE), StringObj(<<>>), BytesObj(<<>>),
           BigInt(FALSE, <<255>>), FailingSerializable,
           Param("Map", MapObj(<<Pair(MapKeys[1], BoolObj(TRUE)),
                                 Pair(MapKeys[2], BytesObj(<<1>>))>>)),
           Param("Boolean", StringObj(<<97>>)) }

(***************************************************************************)
(* The state machine.  A call runs on the builder as it stands and leaves  *)
(* what the method left; a panic ends the program.                         *)
(***************************************************************************)
Cur == [buff |-> buff, errs |-> errs, panic |-> FALSE]

Entry(op, obj, n1, n2) == [op |-> op, obj |-> obj, n1 |-> n1, n2 |-> n2]

Do(op, obj, n1, n2, after) ==
    /\ ~crashed
    /\ buff' = after.buff
    /\ errs' = after.errs
    /\ crashed' = after.panic
    /\ log' = Append(log, Entry(op, obj, n1, n2))
    /\ pre' = [buff |-> buff, errs |-> errs]
    /\ UNCHANGED rets

Init ==
    /\ buff = NewScriptBuilder.buff
    /\ errs = NewScriptBuilder.errs
    /\ crashed = FALSE
    /\ log = <<>>
    /\ pre = [buff |-> <<>>, errs |-> <<>>]
    /\ rets = <<>>

EmitAct(op, arg) == Do("Emit", BytesObj(arg), op, 0, Emit(Cur, op, arg))
EmitCallAct(offset) == Do("EmitCall", NoObj, 0, offset, EmitCall(Cur, offset))
EmitJumpAct(op, offset) == Do("EmitJump", NoObj, op, offset, EmitJump(Cur, op, offset))
EmitPushBigIntAct(number) ==
    Do("EmitPushBigInt", number, 0, 0, EmitPushBigInt(Cur, number))
EmitPushIntegerAct(num) ==
    Do("EmitPushInteger", num, 0, 0, EmitPushInteger(Cur, num))
EmitPushBoolAct(data) ==
    Do("EmitPushBool", BoolObj(data), 0, 0, EmitPushBool(Cur, data))
EmitPushBytesAct(data) ==
    Do("EmitPushBytes", data, 0, 0, EmitPushBytes(Cur, data))
EmitPushStringAct(data) ==
    Do("EmitPushString", data, 0, 0, EmitPushString(Cur, data))
EmitPushSerializableAct(data) ==
    Do("EmitPushSerializable", data, 0, 0, EmitPushSerializable(Cur, data))
CreateArrayAct(list) ==
    Do("CreateArray", list, 0, 0, CreateArray(Cur, list, <<>>))
CreateMapAct(m) ==
    \E ord \in OrdersFor(m) : Do("CreateMap", m, 0, 0, CreateMap(Cur, m, ord))
EmitPushParameterAct(param) ==
    \E ord \in OrdersFor(param) :
        Do("EmitPushParameter", param, 0, 0, EmitPushParameter(Cur, param, ord))
EmitPushObjectAct(obj) ==
    \E ord \in OrdersFor(obj) :
        Do("EmitPushObject", obj, 0, 0, EmitPushObject(Cur, obj, ord))

\* ToArray: the result goes to the caller; the builder is left as it is.
ToArrayAct ==
    /\ ~crashed
    /\ rets' = Append(rets, [bytes |-> ToArray(Cur).bytes, err |-> ToArray(Cur).err,
                              log |-> log])
    /\ UNCHANGED <<buff, errs, crashed, log, pre>>

\* NewScriptBuilder: the caller goes on with a builder of its own, keeping
\* what the ones before returned.
NewScriptBuilderAct ==
    /\ ~crashed
    /\ buff' = NewScriptBuilder.buff
    /\ errs' = NewScriptBuilder.errs
    /\ crashed' = NewScriptBuilder.panic
    /\ log' = <<>>
    /\ pre' = [buff |-> <<>>, errs |-> <<>>]
    /\ UNCHANGED rets

(***************************************************************************)
(* Spec: a session on one builder, a few calls deep, over a few inputs of  *)
(* every operation, with and without an error.                             *)
(***************************************************************************)
TooBig == BigInt(FALSE, <<1>> \o Fill(MaxMagLen - 1, 0))

CanCall == Len(log) < MaxCalls

SEmit == CanCall /\ EmitAct(NOP, <<>>)
SEmitJump == CanCall /\ \E c \in {<<NOP, 0>>} : EmitJumpAct(c[1], c[2])
SEmitPushBigInt == CanCall /\ \E x \in {TooBig} : EmitPushBigIntAct(x)
SEmitPushInteger == CanCall /\ \E x \in {FloatObj} : EmitPushIntegerAct(x)
SEmitPushBool == CanCall /\ \E x \in {TRUE} : EmitPushBoolAct(x)
SEmitPushBytes == CanCall /\ \E x \in {NilBytes} : EmitPushBytesAct(x)
SEmitPushString == CanCall /\ \E x \in {StringObj(<<97>>)} : EmitPushStringAct(x)
SEmitPushSerializable ==
    CanCall /\ \E x \in {FailingSerializable} : EmitPushSerializableAct(x)
SCreateArray == CanCall /\ \E x \in {List(<<FloatObj, BoolObj(TRUE)>>)} : CreateArrayAct(x)
SCreateMap == CanCall /\ \E x \in {NilMap} : CreateMapAct(x)
SEmitPushParameter ==
    CanCall /\ \E x \in {Param("Boolean", StringObj(<<97>>))} : EmitPushParameterAct(x)
SEmitPushObject == CanCall /\ \E x \in {FloatObj} : EmitPushObjectAct(x)
SToArray == Len(rets) < MaxRets /\ ToArrayAct

Next ==
    \/ SEmit \/ SEmitJump \/ SEmitPushBigInt \/ SEmitPushInteger \/ SEmitPushBool
    \/ SEmitPushBytes \/ SEmitPushString \/ SEmitPushSerializable \/ SCreateArray
    \/ SCreateMap \/ SEmitPushParameter \/ SEmitPushObject \/ SToArray

Spec == Init /\ [][Next]_vars

(***************************************************************************)
(* CallSpec: one call of an operation, over the wide inputs, on a fresh    *)
(* builder or after one of the calls of Prelude.                           *)
(***************************************************************************)
Prelude == {Entry("Emit", BytesObj(<<>>), NOP, 0), Entry("EmitPushBytes", NilBytes, 0, 0)}

Ready == log = <<>> \/ (Len(log) = 1 /\ log[1] \in Prelude)

WEmit == Ready /\ \E op \in {NOP, PACK} : \E arg \in {<<>>, <<1, 2>>} : EmitAct(op, arg)
WEmitCall == Ready /\ \E off \in Offsets : EmitCallAct(off)
WEmitJump == Ready /\ \E op \in JumpOps : \E off \in Offsets : EmitJumpAct(op, off)
WEmitPushBigInt == Ready /\ \E x \in BigInts : EmitPushBigIntAct(x)
WEmitPushInteger ==
    Ready /\ \E x \in FixedInts \cup {FloatObj, StringObj(<<49>>)} : EmitPushIntegerAct(x)
WEmitPushBool == Ready /\ \E x \in BOOLEAN : EmitPushBoolAct(x)
WEmitPushBytes ==
    Ready /\ \E x \in {NilBytes} \cup {BytesObj(b) : b \in ByteStrings} : EmitPushBytesAct(x)
WEmitPushString ==
    Ready /\ \E x \in {StringObj(b) : b \in ByteStrings} : EmitPushStringAct(x)
WEmitPushSerializable ==
    Ready /\ \E x \in {UInt160Obj(Hash160), UInt256Obj(Hash256), FailingSerializable} :
        EmitPushSerializableAct(x)
WCreateArray == Ready /\ \E x \in Lists : CreateArrayAct(x)
WCreateMap == Ready /\ \E x \in Maps : CreateMapAct(x)
WEmitPushParameter == Ready /\ \E x \in Params : EmitPushParameterAct(x)
WEmitPushObject == Ready /\ \E x \in Objects : EmitPushObjectAct(x)
CallNext ==
    \/ WEmit \/ WEmitCall \/ WEmitJump \/ WEmitPushBigInt \/ WEmitPushInteger
    \/ WEmitPushBool \/ WEmitPushBytes \/ WEmitPushString \/ WEmitPushSerializable
    \/ WCreateArray \/ WCreateMap \/ WEmitPushParameter \/ WEmitPushObject

CallSpec == Init /\ [][CallNext]_vars

(***************************************************************************)
(* MapSpec: builders made one after the other, each given one CreateMap    *)
(* (or one ContractParameter of Type Map) and then ToArray.                *)
(***************************************************************************)
MCreateMap == log = <<>> /\ \E x \in SmallMaps : CreateMapAct(x)
MEmitPushParameter ==
    log = <<>> /\ \E x \in {Param("Map", m) : m \in SmallMaps} : EmitPushParameterAct(x)
MToArray == log # <<>> /\ Len(rets) < MaxRets /\ ToArrayAct
MNewScriptBuilder == log # <<>> /\ NewScriptBuilderAct

MapNext == MCreateMap \/ MEmitPushParameter \/ MToArray \/ MNewScriptBuilder

MapSpec == Init /\ [][MapNext]_vars

(***************************************************************************)
(* What the latest call did.                                               *)
(***************************************************************************)
Last == log[Len(log)]
Called(op) == log # <<>> /\ Last.op = op
KeptPrefix == Len(buff) >= Len(pre.buff) /\ SubSeq(buff, 1, Len(pre.buff)) = pre.buff
Appended == SubSeq(buff, Len(pre.buff) + 1, Len(buff))
NoNewError == errs = pre.errs
ReturnedNow(r) == r.log = log

\* The integer a byte sequence stands for, little-endian: unsigned, and as a
\* signed byte or a signed 32-bit integer.
RECURSIVE UnsignedLE(_)
UnsignedLE(b) == IF b = <<>> THEN 0 ELSE b[1] + 256 * UnsignedLE(Tail(b))
SignedByte(b) == IF b >= 128 THEN b - 256 ELSE b
SignedLE4(b) == SignedByte(b[4]) * 16777216 + UnsignedLE(SubSeq(b, 1, 3))

(***************************************************************************)
(* C1: after any sequence of encode calls, ToArray returns the whole       *)
(* buffer whether or not errors were recorded; the error it returns is nil *)
(* exactly when no error was recorded, and otherwise its message is the    *)
(* recorded messages, in the order they were recorded, with a newline      *)
(* between one and the next.  A call only ever adds to what was recorded.  *)
(***************************************************************************)
RECURSIVE NewlineJoined(_)
NewlineJoined(msgs) ==
    IF Len(msgs) = 1 THEN msgs[1]
    ELSE NewlineJoined(SubSeq(msgs, 1, Len(msgs) - 1)) \o <<"\n">> \o msgs[Len(msgs)]

Thm_C1 ==
    /\ Len(errs) >= Len(pre.errs) /\ SubSeq(errs, 1, Len(pre.errs)) = pre.errs
    /\ \A i \in 1..Len(rets) :
          ReturnedNow(rets[i]) =>
             /\ rets[i].bytes = buff
             /\ (rets[i].err = NilError) <=> (errs = <<>>)
             /\ errs # <<>> => rets[i].err = NewlineJoined(errs)

Wit_C1 ==
    \E i \in 1..Len(rets) :
        /\ ReturnedNow(rets[i])
        /\ Len(log) = 3 /\ log[1].op = "EmitPushBytes" /\ log[2].op = "EmitJump"
        /\ log[3].op = "EmitPushObject"
        /\ errs = <<ErrDataEmpty, ErrInvalidOpCode, ErrArgumentType>>
        /\ rets[i].bytes = <<NOP, 0, 0, 0, 0>>
        /\ rets[i].err = <<"data is empty", "\n", "argument out of range: invalid OpCode",
                           "\n", "invalid argument type">>

(***************************************************************************)
(* C5: for an opcode in [JMP, JMPLE_L], EmitJump appends the opcode and    *)
(* the offset as one signed byte when the opcode is a short form (even)    *)
(* and the offset is in [-128, 127]; the paired long form (opcode + 1) and *)
(* the offset as 4 little-endian bytes when it is a short form and the     *)
(* offset is not in that range; the opcode and the offset as 4             *)
(* little-endian bytes when it is a long form; and records no error.       *)
(***************************************************************************)
Thm_C5 ==
    (Called("EmitJump") /\ Last.n1 \in JMP..JMPLE_L) =>
        LET op    == Last.n1
            off   == Last.n2
            short == op % 2 = 0
            fits  == off \in (-128)..127
            out   == Appended
        IN  /\ ~crashed /\ KeptPrefix /\ NoNewError
            /\ IF short /\ fits
               THEN Len(out) = 2 /\ out[1] = op /\ SignedByte(out[2]) = off
               ELSE /\ Len(out) = 5
                    /\ out[1] = (IF short THEN op + 1 ELSE op)
                    /\ SignedLE4(SubSeq(out, 2, 5)) = off

Wit_C5 ==
    /\ Called("EmitJump") /\ Last.n1 = JMP /\ Last.n2 = 200
    /\ pre.buff = <<NOP>>
    /\ buff = <<NOP, JMP + 1, 200, 0, 0, 0>>

(***************************************************************************)
(* C6: for a list x1..xn that is not empty, CreateArray appends what       *)
(* EmitPushObject emits for xn alone, then for x(n-1), ..., then for x1,   *)
(* then the push of the integer n, then PACK, and nothing else; for an     *)
(* empty or nil list it appends NEWARRAY0 alone.                           *)
(***************************************************************************)
Alone(x) == EmitPushObject(NewScriptBuilder, x, <<>>).buff
PushOfCount(n) == EmitPushBigInt(NewScriptBuilder, BigInt(FALSE, <<n>>)).buff

RECURSIVE LastToFirst(_)
LastToFirst(xs) ==
    IF xs = <<>> THEN <<>>
    ELSE Alone(xs[Len(xs)]) \o LastToFirst(SubSeq(xs, 1, Len(xs) - 1))

SupportedKinds ==
    IntKinds \cup SerializableKinds
    \cup {"CallFlags", "bool", "[]byte", "string", "big.Int", "*big.Int",
          "ContractParameter", "types.Nil"}

Thm_C6 ==
    (Called("CreateArray") /\ \A i \in 1..Len(Last.obj.items) :
                                  Last.obj.items[i].k \in SupportedKinds) =>
        LET xs == Last.obj.items
        IN  /\ ~crashed /\ KeptPrefix
            /\ IF Last.obj.isNil \/ xs = <<>>
               THEN Appended = <<NEWARRAY0>>
               ELSE Appended = LastToFirst(xs) \o PushOfCount(Len(xs)) \o <<PACK>>

Wit_C6 ==
    /\ Called("CreateArray") /\ pre.buff = <<NOP>>
    /\ Last.obj.items = <<BoolObj(TRUE), BytesObj(<<1, 2>>), StringObj(<<97>>)>>
    /\ Appended = <<PUSHDATA1, 1, 97, PUSHDATA1, 2, 1, 2, PUSH1, PUSH0 + 3, PACK>>

(***************************************************************************)
(* C7: for a byte string d of length L > 0, EmitPushBytes appends          *)
(* PUSHDATA1 and L in one byte if L < 256, PUSHDATA2 and L in two          *)
(* little-endian bytes if 256 <= L < 65536, else PUSHDATA4 and L in four   *)
(* little-endian bytes; then the L bytes of d, and nothing else; and       *)
(* records no error.                                                       *)
(***************************************************************************)
Thm_C7 ==
    (Called("EmitPushBytes") /\ ~Last.obj.isNil /\ Len(Last.obj.b) > 0) =>
        LET d   == Last.obj.b
            L   == Len(d)
            w   == IF L < 256 THEN 1 ELSE IF L < 65536 THEN 2 ELSE 4
            out == Appended
        IN  /\ ~crashed /\ KeptPrefix /\ NoNewError
            /\ Len(out) = 1 + w + L
            /\ out[1] = (IF w = 1 THEN PUSHDATA1 ELSE IF w = 2 THEN PUSHDATA2 ELSE PUSHDATA4)
            /\ UnsignedLE(SubSeq(out, 2, 1 + w)) = L
            /\ SubSeq(out, 2 + w, Len(out)) = d

Wit_C7 ==
    /\ Called("EmitPushBytes") /\ Len(Last.obj.b) = 300 /\ pre.buff = <<NOP>>
    /\ SubSeq(buff, 1, 4) = <<NOP, PUSHDATA2, 44, 1>>
    /\ Len(buff) = 304 /\ buff[304] = 255

(***************************************************************************)
(* C2: for an integer v outside [-1, 16] whose minimal two's-complement    *)
(* representation has n <= 32 bytes, EmitPushBigInt appends the            *)
(* push-integer opcode of the smallest width w of {1, 2, 4, 8, 16, 32}     *)
(* with w >= n and then w bytes: the minimal representation, filled on the *)
(* high end with the sign byte (0x00 for v >= 0, 0xFF for v < 0), so that  *)
(* the w bytes read as a two's-complement little-endian integer give v.    *)
(***************************************************************************)
\* The least number of bytes whose two's complement holds v.
MinimalLen(v) ==
    IF v.b = <<>> THEN 0
    ELSE IF ~v.neg THEN Len(v.b) + (IF v.b[1] >= 128 THEN 1 ELSE 0)
    ELSE IF \/ v.b[1] < 128
            \/ (v.b[1] = 128 /\ \A i \in 2..Len(v.b) : v.b[i] = 0)
         THEN Len(v.b)
         ELSE Len(v.b) + 1

WidthClass(n) ==
    IF n <= 1 THEN 1 ELSE IF n <= 2 THEN 2 ELSE IF n <= 4 THEN 4
    ELSE IF n <= 8 THEN 8 ELSE IF n <= 16 THEN 16 ELSE 32

PushIntOp(w) ==
    CASE w = 1 -> PUSHINT8 [] w = 2 -> PUSHINT16 [] w = 4 -> PUSHINT32
      [] w = 8 -> PUSHINT64 [] w = 16 -> PUSHINT128 [] OTHER -> PUSHINT256

\* The sign and the magnitude that little-endian two's-complement bytes stand for.
ReadTwosComplement(p) ==
    IF p[Len(p)] >= 128
    THEN [neg |-> TRUE, mag |-> StripLeadingZeros(ReverseBytes(Negate(p)))]
    ELSE [neg |-> FALSE, mag |-> StripLeadingZeros(ReverseBytes(p))]

PushesValue(out, v) ==
    LET n == MinimalLen(v)
        w == WidthClass(n)
    IN  /\ Len(out) = 1 + w
        /\ out[1] = PushIntOp(w)
        /\ \A i \in (n + 2)..(w + 1) : out[i] = (IF v.neg THEN 255 ELSE 0)
        /\ ReadTwosComplement(Tail(out)) = [neg |-> v.neg, mag |-> v.b]

CE_C2 ==
    (/\ Called("EmitPushBigInt") /\ ~InSmallRange(Last.obj)
     /\ MinimalLen(Last.obj) <= 32) =>
        /\ ~crashed /\ KeptPrefix /\ NoNewError
        /\ PushesValue(Appended, Last.obj)

(***************************************************************************)
(* C3: pushing a byte string that is nil or empty (a nil slice or a slice  *)
(* of length zero through EmitPushBytes, the empty string through          *)
(* EmitPushString) records an error and appends no byte.                   *)
(***************************************************************************)
CE_C3 ==
    (/\ Called("EmitPushBytes") \/ Called("EmitPushString")
     /\ Last.obj.isNil \/ Last.obj.b = <<>>) =>
        /\ ~crashed
        /\ buff = pre.buff
        /\ Len(errs) = Len(pre.errs) + 1

(***************************************************************************)
(* C4: for a ContractParameter whose value is not nil and is not of the    *)
(* representation its Type expects, EmitPushParameter returns having       *)
(* recorded an error, and does not panic.                                  *)
(***************************************************************************)
ExpectedKinds(tag) ==
    CASE tag \in {"Signature", "ByteArray", "PublicKey"} -> {"[]byte"}
      [] tag = "Boolean" -> {"bool"}
      [] tag = "Integer" -> IntKinds \cup {"big.Int", "*big.Int"}
      [] tag = "Hash160" -> {"*helper.UInt160"}
      [] tag = "Hash256" -> {"*helper.UInt256"}
      [] tag = "String"  -> {"string"}
      [] tag = "Array"   -> {"[]ContractParameter"}
      [] tag = "Map"     -> {"map[interface{}]interface{}"}
      [] OTHER           -> {}

DeclaredTypes ==
    { "Signature", "ByteArray", "Boolean", "Integer", "Hash160", "Hash256",
      "PublicKey", "String", "Array", "Map" }

Mismatched(param) ==
    /\ param.items # <<>>
    /\ param.tag \in DeclaredTypes
    /\ param.items[1].k \notin ExpectedKinds(param.tag)

CE_C4 ==
    (Called("EmitPushParameter") /\ Mismatched(Last.obj)) =>
        /\ ~crashed
        /\ Len(errs) > Len(pre.errs)

(***************************************************************************)
(* C8: map construction is deterministic: two builders that were each      *)
(* given the same one call with the same map return the same bytes.        *)
(***************************************************************************)
CE_C8 ==
    \A i, j \in 1..Len(rets) :
        rets[i].log = rets[j].log => rets[i].bytes = rets[j].bytes

(***************************************************************************)
(* C9: ToArray drains the builder: once it has returned, the error list    *)
(* and the buffer are empty, so that a second ToArray with no encode call  *)
(* in between returns none of the errors returned before.                  *)
(***************************************************************************)
CE_C9 ==
    /\ \A i \in 1..Len(rets) : ReturnedNow(rets[i]) => errs = <<>> /\ buff = <<>>
    /\ \A i, j \in 1..Len(rets) :
          (i < j /\ rets[i].log = rets[j].log) => rets[j].err = NilError

(***************************************************************************)
(* C10: for a value of a fixed-width integer type, EmitPushInteger and     *)
(* EmitPushObject append the bytes EmitPushBigInt appends for the value    *)
(* the integer has: a uint64 of 2^63 or more is pushed as that value, not  *)
(* as a negative one.                                                      *)
(***************************************************************************)
\* The value of a fixed-width integer, as a big.Int.
ValueOf(num) ==
    IF num.k \in SignedKinds /\ num.b[Len(num.b)] >= 128
    THEN BigInt(TRUE, StripLeadingZeros(ReverseBytes(Negate(num.b))))
    ELSE BigInt(FALSE, StripLeadingZeros(ReverseBytes(num.b)))

CE_C10 ==
    (/\ Called("EmitPushInteger") \/ Called("EmitPushObject")
     /\ Last.obj.k \in IntKinds) =>
        /\ ~crashed /\ KeptPrefix /\ NoNewError
        /\ Appended = EmitPushBigInt(NewScriptBuilder, ValueOf(Last.obj)).buff

=============================================================================
